---- MODULE Spec2Model ----
(***************************************************************************)
(* Exercise-Tracker REST API (express + mongoose).                         *)
(*                                                                         *)
(* src/unnamed/part_000 holds two copies of the server: lines 1-220 (the   *)
(* first copy, copy = 1) and lines 222-391 (the second copy, copy = 2).    *)
(* Both define the same four routes over the same User collection; they    *)
(* differ in validation and in how strings are converted.                  *)
(*                                                                         *)
(* Strings are sequences of one-character strings, so that trim, parseInt, *)
(* Number and Date parsing are computed and not assumed. Request fields    *)
(* are strings or absent (form-encoded bodies and query strings); the      *)
(* store is reachable, so findById and save fail only on validation.       *)
(***************************************************************************)
EXTENDS Integers, Sequences, FiniteSets, TLC

(***************************************************************************)
(* Bounds of the model.                                                    *)
(***************************************************************************)
MaxUsers == 2
MaxLog == 2
IdLen == 2
DayLen == 2
NumSlots == 2

(***************************************************************************)
(* JavaScript values.                                                      *)
(***************************************************************************)
\* A request field (body, query): undefined or a string.
Absent == [present |-> FALSE, s |-> <<>>]
Str(s) == [present |-> TRUE, s |-> s]

\* JS truthiness of an optional string: undefined and "" are falsy.
Truthy(x) == x.present /\ x.s # <<>>

\* A JS number restricted to decimal literals: NaN, or sign * (int + 0.frac).
NaN == [nan |-> TRUE, sign |-> 1, int |-> 0, frac |-> <<>>]
MkNum(sg, i, f) ==
    [nan |-> FALSE, sign |-> IF i = 0 /\ f = <<>> THEN 1 ELSE sg, int |-> i, frac |-> f]
IsInteger(n) == ~n.nan /\ n.frac = <<>>
\* ToIntegerOrInfinity: NaN -> 0, otherwise truncation toward zero.
ToInteger(n) == IF n.nan THEN 0 ELSE n.sign * n.int

DigitChars == <<"0", "1", "2", "3", "4", "5", "6", "7", "8", "9">>
IsDigit(c) == \E i \in 1..10 : DigitChars[i] = c
DigitVal(c) == (CHOOSE i \in 1..10 : DigitChars[i] = c) - 1
IsSpace(c) == c = " "

RECURSIVE TrimStart(_)
TrimStart(s) ==
    IF s # <<>> /\ IsSpace(Head(s)) THEN TrimStart(Tail(s)) ELSE s

RECURSIVE TrimEnd(_)
TrimEnd(s) ==
    IF s # <<>> /\ IsSpace(s[Len(s)]) THEN TrimEnd(SubSeq(s, 1, Len(s) - 1)) ELSE s

\* String.prototype.trim
Trim(s) == TrimEnd(TrimStart(s))

RECURSIVE DigitPrefixLen(_)
DigitPrefixLen(s) ==
    IF s # <<>> /\ IsDigit(Head(s)) THEN 1 + DigitPrefixLen(Tail(s)) ELSE 0

RECURSIVE DecVal(_)
DecVal(s) ==
    IF s = <<>> THEN 0 ELSE 10 * DecVal(SubSeq(s, 1, Len(s) - 1)) + DigitVal(s[Len(s)])

RECURSIVE StripZeros(_)
StripZeros(s) ==
    IF s # <<>> /\ s[Len(s)] = "0" THEN StripZeros(SubSeq(s, 1, Len(s) - 1)) ELSE s

HasSign(s) == s # <<>> /\ Head(s) \in {"-", "+"}
SignOf(s) == IF s # <<>> /\ Head(s) = "-" THEN -1 ELSE 1
Unsigned(s) == IF HasSign(s) THEN Tail(s) ELSE s

\* Number(string): the whole trimmed string must be a decimal literal
\* (digits, optionally "." and digits); "" is 0; anything else is NaN.
ToNumber(s) ==
    LET t == Trim(s)
        u == Unsigned(t)
        k == DigitPrefixLen(u)
        r == SubSeq(u, k + 1, Len(u))
    IN  IF t = <<>> THEN MkNum(1, 0, <<>>)
        ELSE IF k = 0 THEN NaN
        ELSE IF r = <<>> THEN MkNum(SignOf(t), DecVal(SubSeq(u, 1, k)), <<>>)
        ELSE IF Head(r) = "." /\ DigitPrefixLen(Tail(r)) = Len(r) - 1
             THEN MkNum(SignOf(t), DecVal(SubSeq(u, 1, k)), StripZeros(Tail(r)))
        ELSE NaN

\* Mutation: Number() used where the code calls parseInt().
ParseInt_AsNumber(s) == ToNumber(s)

\* parseInt(string): skip leading white space, optional sign, the longest
\* prefix of decimal digits; NaN when there is no digit.
ParseInt(s) ==
    LET t == TrimStart(s)
        u == Unsigned(t)
        k == DigitPrefixLen(u)
    IN  IF k = 0 THEN NaN ELSE MkNum(SignOf(t), DecVal(SubSeq(u, 1, k)), <<>>)

\* A JS Date: a time value in ticks (DayLen ticks to a day) or Invalid Date.
InvalidDate == [valid |-> FALSE, t |-> 0]
MkDate(t) == [valid |-> TRUE, t |-> t]

\* new Date(string) on the date strings of the model: "d" is day d at
\* midnight, "dTh" is day d plus h ticks (h < DayLen); anything else,
\* the empty and the blank string included, is Invalid Date.
ParseDate(s) ==
    IF Len(s) = 1 /\ IsDigit(s[1]) THEN MkDate(DigitVal(s[1]) * DayLen)
    ELSE IF Len(s) = 3 /\ IsDigit(s[1]) /\ s[2] = "T" /\ IsDigit(s[3])
            /\ DigitVal(s[3]) < DayLen
         THEN MkDate(DigitVal(s[1]) * DayLen + DigitVal(s[3]))
    ELSE InvalidDate

\* Date.prototype.toDateString: the calendar day, time of day dropped.
ToDateString(d) == <<"day", d.t \div DayLen>>

\* Mutation: the lower bound of the range taken exclusive.
DateGe_Strict(a, b) == a.valid /\ b.valid /\ a.t > b.t

\* a >= b and a <= b on Dates: comparisons with Invalid Date (NaN) are false.
DateGe(a, b) == a.valid /\ b.valid /\ a.t >= b.t
DateLe(a, b) == a.valid /\ b.valid /\ a.t <= b.t

\* Array.prototype.slice(0, end)
Slice(seq, end) ==
    LET e == ToInteger(end)
        final == IF e < 0 THEN (IF Len(seq) + e < 0 THEN 0 ELSE Len(seq) + e)
                 ELSE (IF e > Len(seq) THEN Len(seq) ELSE e)
    IN  SubSeq(seq, 1, final)


(***************************************************************************)
(* The store: the User collection, in insertion order.                     *)
(***************************************************************************)
VARIABLES
    copy,     \* which copy of the server in part_000 is running: 1 or 2
    users,    \* the collection: sequence of [_id, username, log]
    reqs,     \* per request slot: an Add Exercise between findById and save
    resp,     \* the response sent by the last step (NoResp if none was sent)
    okAdds    \* history: per user, the bodies of the successful Add responses

vars == <<copy, users, reqs, resp, okAdds>>

Slots == 1..NumSlots

HexChars == {"0", "1", "2", "3", "4", "5", "6", "7", "8", "9",
             "a", "b", "c", "d", "e", "f"}
HexDigit(n) == IF n < 10 THEN DigitChars[n + 1]
               ELSE <<"a", "b", "c", "d", "e", "f">>[n - 9]

\* Mutation: the identifier check looks at the length only.
IsValidObjectId_LengthOnly(s) == Len(s) = IdLen

\* mongoose.Types.ObjectId.isValid on a path string: a hex string of the
\* identifier length (24 in the program, IdLen here). Strings of 12 bytes,
\* which some versions of the driver accept as well, are not among the
\* inputs.
IsValidObjectId(s) == Len(s) = IdLen /\ \A i \in 1..Len(s) : s[i] \in HexChars

\* The _id the driver gives the n-th document: unique, well-formed.
MkId(n) == [i \in 1..IdLen |-> IF i = IdLen THEN HexDigit(n) ELSE "0"]

\* User.findById: the index of the document, 0 for null.
FindById(us, id) ==
    IF \E i \in 1..Len(us) : us[i]._id = id
    THEN CHOOSE i \in 1..Len(us) : us[i]._id = id
    ELSE 0

\* The log of the user with this id in a collection (<<>> if none).
LogOf(us, id) == IF FindById(us, id) = 0 THEN <<>> ELSE us[FindById(us, id)].log

\* userSchema: what document validation on save() accepts for a log entry.
\* required String rejects "", Number rejects NaN, Date rejects Invalid Date.
userSchema(e) == e.description # <<>> /\ ~e.duration.nan /\ e.date.valid

NoUser == [_id |-> <<>>, username |-> <<>>, log |-> <<>>]
NoExercise == [description |-> <<>>, duration |-> NaN, date |-> InvalidDate]
NoReq == [op |-> "none"]
Idle == [pc |-> "idle", req |-> NoReq, user |-> NoUser, exercise |-> NoExercise]
NoResp == [op |-> "none", status |-> 0, body |-> [none |-> TRUE], req |-> NoReq,
           base |-> <<>>]

Reply(op, status, body, req) ==
    [op |-> op, status |-> status, body |-> body, req |-> req, base |-> <<>>]
Error(op, status, msg, req) == Reply(op, status, [error |-> msg], req)

\* Number of Add Exercise requests that hold this user between find and save.
Pending(id) == Cardinality({s \in Slots : reqs[s].pc = "found" /\ reqs[s].user._id = id})

(***************************************************************************)
(* First copy of the server, part_000 lines 1-220.                         *)
(***************************************************************************)
\* POST /api/users
CreateUser(username) ==
    LET req == [op |-> "create", username |-> username] IN
    /\ copy = 1
    /\ IF ~Truthy(username) \/ Trim(username.s) = <<>>
       THEN /\ resp' = Error("create", 400, "Username is required", req)
            /\ UNCHANGED <<users, okAdds>>
       ELSE LET savedUser == [_id |-> MkId(Len(users) + 1),
                              username |-> Trim(username.s), log |-> <<>>]
            IN  /\ Len(users) < MaxUsers
                /\ users' = Append(users, savedUser)
                /\ okAdds' = Append(okAdds, <<>>)
                /\ resp' = Reply("create", 200,
                                 [username |-> savedUser.username, _id |-> savedUser._id], req)
    /\ UNCHANGED <<copy, reqs>>

\* History for the list responses: the body of the Create User response
\* that the step before this one sent, if it was a successful one.
JustCreated ==
    IF resp.op = "create" /\ resp.status \in {200, 201} THEN <<resp.body>> ELSE <<>>

\* Mutation: the documents returned whole, without select() and map().
GetUsers_WithLog ==
    /\ copy = 1
    /\ resp' = Reply("users", 200, [users |-> users], [op |-> "users", created |-> JustCreated])
    /\ UNCHANGED <<copy, users, reqs, okAdds>>

\* GET /api/users
GetUsers ==
    /\ copy = 1
    /\ resp' = Reply("users", 200,
                     [users |-> [i \in 1..Len(users) |->
                                   [username |-> users[i].username, _id |-> users[i]._id]]],
                     [op |-> "users", created |-> JustCreated])
    /\ UNCHANGED <<copy, users, reqs, okAdds>>

\* Mutation: the exercise pushed and saved before its date is validated.
AddExercise_PushBeforeDateCheck(s, userId, description, duration, date, now) ==
    LET req == [op |-> "add", userId |-> userId, description |-> description,
                duration |-> duration, date |-> date]
        i == FindById(users, userId)
        exerciseDate == IF Truthy(date) /\ Trim(date.s) # <<>>
                        THEN ParseDate(date.s) ELSE MkDate(now)
        exercise == [description |-> description.s, duration |-> ParseInt(duration.s),
                     date |-> exerciseDate]
    IN
    /\ copy = 1
    /\ reqs[s].pc = "idle"
    /\ IF ~Truthy(description) \/ ~Truthy(duration)
       THEN /\ resp' = Error("add", 400, "Description and duration are required", req)
            /\ UNCHANGED <<reqs, users>>
       ELSE IF ~IsValidObjectId(userId)
       THEN /\ resp' = Error("add", 400, "Invalid user ID format", req)
            /\ UNCHANGED <<reqs, users>>
       ELSE IF i = 0
       THEN /\ resp' = Error("add", 404, "User not found", req)
            /\ UNCHANGED <<reqs, users>>
       ELSE IF ~exerciseDate.valid
       THEN /\ Len(users[i].log) + Pending(userId) < MaxLog
            /\ users' = [users EXCEPT ![i].log = Append(@, exercise)]
            /\ resp' = Error("add", 400, "Invalid date format", req)
            /\ UNCHANGED reqs
       ELSE /\ Len(users[i].log) + Pending(userId) < MaxLog
            /\ reqs' = [reqs EXCEPT ![s] =
                          [pc |-> "found", req |-> req, user |-> users[i],
                           exercise |-> exercise]]
            /\ resp' = NoResp
            /\ UNCHANGED users
    /\ UNCHANGED <<copy, okAdds>>

\* POST /api/users/:_id/exercises, up to the await of user.save():
\* validation, findById, date parsing, building the exercise.
AddExercise(s, userId, description, duration, date, now) ==
    LET req == [op |-> "add", userId |-> userId, description |-> description,
                duration |-> duration, date |-> date]
        i == FindById(users, userId)
        exerciseDate == IF Truthy(date) /\ Trim(date.s) # <<>>
                        THEN ParseDate(date.s) ELSE MkDate(now)
    IN
    /\ copy = 1
    /\ reqs[s].pc = "idle"
    /\ IF ~Truthy(description) \/ ~Truthy(duration)
       THEN /\ resp' = Error("add", 400, "Description and duration are required", req)
            /\ UNCHANGED reqs
       ELSE IF ~IsValidObjectId(userId)
       THEN /\ resp' = Error("add", 400, "Invalid user ID format", req)
            /\ UNCHANGED reqs
       ELSE IF i = 0
       THEN /\ resp' = Error("add", 404, "User not found", req)
            /\ UNCHANGED reqs
       ELSE IF ~exerciseDate.valid
       THEN /\ resp' = Error("add", 400, "Invalid date format", req)
            /\ UNCHANGED reqs
       ELSE /\ Len(users[i].log) + Pending(userId) < MaxLog
            /\ reqs' = [reqs EXCEPT ![s] =
                          [pc |-> "found", req |-> req, user |-> users[i],
                           exercise |-> [description |-> description.s,
                                         duration |-> ParseInt(duration.s),
                                         date |-> exerciseDate]]]
            /\ resp' = NoResp
    /\ UNCHANGED <<copy, users, okAdds>>

\* Mutation: the new entry put at the head of the log (unshift for push).
SaveLog_Unshift(us, r) ==
    [us EXCEPT ![FindById(us, r.user._id)].log = <<r.exercise>> \o @]

\* Mutation: the save writes back the whole document the request read.
SaveLog_WholeDocument(us, r) ==
    [us EXCEPT ![FindById(us, r.user._id)].log = Append(r.user.log, r.exercise)]

\* user.log.push(exercise); await user.save(): the store after the save of
\* request r. mongoose sends the pushed entry (an atomic push on the log),
\* not the whole document, so the entry lands at the end of the log the
\* store holds at that moment, whatever log the request read.
SaveLog(us, r) ==
    [us EXCEPT ![FindById(us, r.user._id)].log = Append(@, r.exercise)]

\* The rest of POST /api/users/:_id/exercises, from user.save() on.
\* save() validates the document against the schema and rejects (500) before
\* any write; otherwise it sends the push of the new entry to the store,
\* which appends it to the log the store holds at that moment.
AddExerciseSave(s) ==
    LET r == reqs[s]
        i == FindById(users, r.user._id)
        body == [_id |-> r.user._id, username |-> r.user.username,
                 description |-> r.exercise.description,
                 duration |-> r.exercise.duration,
                 date |-> ToDateString(r.exercise.date)]
    IN
    /\ copy = 1
    /\ r.pc = "found"
    /\ IF ~userSchema(r.exercise)
       THEN /\ resp' = Error("add", 500, "User validation failed", r.req)
            /\ UNCHANGED <<users, okAdds>>
       ELSE /\ users' = SaveLog(users, r)
            /\ okAdds' = [okAdds EXCEPT ![i] = Append(@, body)]
            /\ resp' = [Reply("add", 200, body, r.req) EXCEPT !.base = r.user.log]
    /\ reqs' = [reqs EXCEPT ![s] = Idle]
    /\ UNCHANGED copy

RECURSIVE FilterFrom(_, _)
\* logs.filter(exercise => exercise.date >= fromDate)
FilterFrom(seq, fromDate) ==
    IF seq = <<>> THEN <<>>
    ELSE IF DateGe(Head(seq).date, fromDate)
         THEN <<Head(seq)>> \o FilterFrom(Tail(seq), fromDate)
    ELSE FilterFrom(Tail(seq), fromDate)

RECURSIVE FilterTo(_, _)
\* logs.filter(exercise => exercise.date <= toDate)
FilterTo(seq, toDate) ==
    IF seq = <<>> THEN <<>>
    ELSE IF DateLe(Head(seq).date, toDate)
         THEN <<Head(seq)>> \o FilterTo(Tail(seq), toDate)
    ELSE FilterTo(Tail(seq), toDate)

\* GET /api/users/:_id/logs
GetLogs(userId, from, to, limit) ==
    LET req == [op |-> "logs", userId |-> userId, from |-> from, to |-> to,
                limit |-> limit]
        i == FindById(users, userId)
        user == users[i]
        fromDate == ParseDate(from.s)
        toDate == ParseDate(to.s)
        logs0 == user.log
        logs1 == IF Truthy(from) /\ fromDate.valid
                 THEN FilterFrom(logs0, fromDate) ELSE logs0
        logs2 == IF Truthy(to) /\ toDate.valid
                 THEN FilterTo(logs1, toDate) ELSE logs1
        logs3 == IF Truthy(limit) /\ ~ParseInt(limit.s).nan
                 THEN Slice(logs2, ParseInt(limit.s)) ELSE logs2
        formattedLogs == [k \in 1..Len(logs3) |->
                            [description |-> logs3[k].description,
                             duration |-> logs3[k].duration,
                             date |-> ToDateString(logs3[k].date)]]
    IN
    /\ copy = 1
    /\ IF ~IsValidObjectId(userId)
       THEN resp' = Error("logs", 400, "Invalid user ID format", req)
       ELSE IF i = 0
       THEN resp' = Error("logs", 404, "User not found", req)
       ELSE resp' = Reply("logs", 200,
                          [_id |-> user._id, username |-> user.username,
                           count |-> Len(formattedLogs), log |-> formattedLogs], req)
    /\ UNCHANGED <<copy, users, reqs, okAdds>>

(***************************************************************************)
(* Second copy of the server, part_000 lines 222-391.                      *)
(***************************************************************************)
\* POST /api/users (second copy): no trim, status 201
CreateUser2(username) ==
    LET req == [op |-> "create", username |-> username] IN
    /\ copy = 2
    /\ IF ~Truthy(username)
       THEN /\ resp' = Error("create", 400, "Username is required", req)
            /\ UNCHANGED <<users, okAdds>>
       ELSE LET user == [_id |-> MkId(Len(users) + 1),
                         username |-> username.s, log |-> <<>>]
            IN  /\ Len(users) < MaxUsers
                /\ users' = Append(users, user)
                /\ okAdds' = Append(okAdds, <<>>)
                /\ resp' = Reply("create", 201,
                                 [username |-> user.username, _id |-> user._id], req)
    /\ UNCHANGED <<copy, reqs>>

\* GET /api/users (second copy): the documents projected on username and _id
GetUsers2 ==
    /\ copy = 2
    /\ resp' = Reply("users", 200,
                     [users |-> [i \in 1..Len(users) |->
                                   [username |-> users[i].username, _id |-> users[i]._id]]],
                     [op |-> "users", created |-> JustCreated])
    /\ UNCHANGED <<copy, users, reqs, okAdds>>

\* POST /api/users/:_id/exercises (second copy), up to the await of
\* user.save(): no blank-date default, no date validation, Number(duration).
AddExercise2(s, userId, description, duration, date, now) ==
    LET req == [op |-> "add", userId |-> userId, description |-> description,
                duration |-> duration, date |-> date]
        i == FindById(users, userId)
        exerciseDate == IF Truthy(date) THEN ParseDate(date.s) ELSE MkDate(now)
    IN
    /\ copy = 2
    /\ reqs[s].pc = "idle"
    /\ IF ~Truthy(description) \/ ~Truthy(duration)
       THEN /\ resp' = Error("add", 400, "Description and duration are required", req)
            /\ UNCHANGED reqs
       ELSE IF ~IsValidObjectId(userId)
       THEN /\ resp' = Error("add", 400, "Invalid user ID format", req)
            /\ UNCHANGED reqs
       ELSE IF i = 0
       THEN /\ resp' = Error("add", 404, "User not found", req)
            /\ UNCHANGED reqs
       ELSE /\ Len(users[i].log) + Pending(userId) < MaxLog
            /\ reqs' = [reqs EXCEPT ![s] =
                          [pc |-> "found", req |-> req, user |-> users[i],
                           exercise |-> [description |-> description.s,
                                         duration |-> ToNumber(duration.s),
                                         date |-> exerciseDate]]]
            /\ resp' = NoResp
    /\ UNCHANGED <<copy, users, okAdds>>

\* The rest of the second copy's POST /api/users/:_id/exercises: status 201
AddExerciseSave2(s) ==
    LET r == reqs[s]
        i == FindById(users, r.user._id)
        body == [_id |-> r.user._id, username |-> r.user.username,
                 description |-> r.exercise.description,
                 duration |-> r.exercise.duration,
                 date |-> ToDateString(r.exercise.date)]
    IN
    /\ copy = 2
    /\ r.pc = "found"
    /\ IF ~userSchema(r.exercise)
       THEN /\ resp' = Error("add", 500, "User validation failed", r.req)
            /\ UNCHANGED <<users, okAdds>>
       ELSE /\ users' = SaveLog(users, r)
            /\ okAdds' = [okAdds EXCEPT ![i] = Append(@, body)]
            /\ resp' = [Reply("add", 201, body, r.req) EXCEPT !.base = r.user.log]
    /\ reqs' = [reqs EXCEPT ![s] = Idle]
    /\ UNCHANGED copy

\* GET /api/users/:_id/logs (second copy): filters and limit applied
\* whenever the parameter is truthy, without checking what it parsed to.
GetLogs2(userId, from, to, limit) ==
    LET req == [op |-> "logs", userId |-> userId, from |-> from, to |-> to,
                limit |-> limit]
        i == FindById(users, userId)
        user == users[i]
        logs0 == user.log
        logs1 == IF Truthy(from) THEN FilterFrom(logs0, ParseDate(from.s)) ELSE logs0
        logs2 == IF Truthy(to) THEN FilterTo(logs1, ParseDate(to.s)) ELSE logs1
        logs3 == IF Truthy(limit) THEN Slice(logs2, ToNumber(limit.s)) ELSE logs2
        formattedLogs == [k \in 1..Len(logs3) |->
                            [description |-> logs3[k].description,
                             duration |-> logs3[k].duration,
                             date |-> ToDateString(logs3[k].date)]]
    IN
    /\ copy = 2
    /\ IF ~IsValidObjectId(userId)
       THEN resp' = Error("logs", 400, "Invalid user ID format", req)
       ELSE IF i = 0
       THEN resp' = Error("logs", 404, "User not found", req)
       ELSE resp' = Reply("logs", 200,
                          [_id |-> user._id, username |-> user.username,
                           count |-> Len(formattedLogs), log |-> formattedLogs], req)
    /\ UNCHANGED <<copy, users, reqs, okAdds>>

(***************************************************************************)
(* Inputs.                                                                 *)
(***************************************************************************)
Usernames == {Absent, Str(<<>>), Str(<<" ">>), Str(<<" ", "a", " ">>)}
PathIds == {MkId(1), MkId(2), MkId(MaxUsers + 1)}
             \cup {SubSeq(MkId(1), 1, IdLen - 1), [MkId(1) EXCEPT ![IdLen] = "z"]}
Descriptions == {Str(<<>>), Str(<<"r">>)}
Durations == {Absent, Str(<<"3", ".", "5">>), Str(<<"x">>)}
Dates == {Absent, Str(<<" ">>), Str(<<"x">>), Str(<<"1">>)}
Clock == {3 * DayLen + 1}

Froms == {Absent, Str(<<"2">>), Str(<<"2", "T", "1">>)}
Tos == {Absent, Str(<<"1">>), Str(<<"2">>)}
SomeIds == {MkId(1), MkId(MaxUsers + 1), SubSeq(MkId(1), 1, IdLen - 1)}
Limits == {Absent, Str(<<"0">>), Str(<<"1">>), Str(<<"-", "1">>), Str(<<"x">>)}
LogDates == {Str(<<"1">>), Str(<<"2">>), Str(<<"2", "T", "1">>)}

Init ==
    /\ copy = 1
    /\ users = <<>>
    /\ reqs = [s \in Slots |-> Idle]
    /\ resp = NoResp
    /\ okAdds = <<>>

\* The first copy, one request at a time.
Next ==
    \/ \E u \in Usernames : CreateUser(u)
    \/ GetUsers
    \/ \E id \in PathIds, d \in Descriptions, n \in Durations, dt \in Dates \ {Str(<<" ">>)},
          now \in Clock :
          AddExercise(1, id, d, n, dt, now)
    \/ AddExerciseSave(1)
    \/ \E id \in PathIds : GetLogs(id, Absent, Absent, Absent)

Spec == Init /\ [][Next]_vars

\* The first copy, one request at a time, the log queries in full.
NextLogs ==
    \/ CreateUser(Str(<<"a">>))
    \/ GetUsers
    \/ \E dt \in LogDates, now \in Clock :
          AddExercise(1, MkId(1), Str(<<"r">>), Str(<<"7">>), dt, now)
    \/ AddExerciseSave(1)
    \/ \E f \in Froms, t \in Tos, l \in Limits : GetLogs(MkId(1), f, t, l)

SpecLogs == Init /\ [][NextLogs]_vars

\* Either copy, one request at a time.
InitBoth ==
    /\ copy \in {1, 2}
    /\ users = <<>>
    /\ reqs = [s \in Slots |-> Idle]
    /\ resp = NoResp
    /\ okAdds = <<>>

NextBoth ==
    \/ \E u \in Usernames : CreateUser(u)
    \/ GetUsers
    \/ \E id \in SomeIds, d \in Descriptions, n \in Durations, dt \in Dates, now \in Clock :
          AddExercise(1, id, d, n, dt, now)
    \/ AddExerciseSave(1)
    \/ \E id \in SomeIds, f \in {Absent, Str(<<"x">>)} : GetLogs(id, f, Absent, Absent)
    \/ \E u \in Usernames : CreateUser2(u)
    \/ GetUsers2
    \/ \E id \in SomeIds, d \in Descriptions, n \in Durations, dt \in Dates, now \in Clock :
          AddExercise2(1, id, d, n, dt, now)
    \/ AddExerciseSave2(1)
    \/ \E id \in SomeIds, f \in {Absent, Str(<<"x">>)} : GetLogs2(id, f, Absent, Absent)

SpecBoth == InitBoth /\ [][NextBoth]_vars

\* The first copy, requests running concurrently: each Add Exercise is
\* suspended at its awaits, and other requests run in between.
NextRace ==
    \/ CreateUser(Str(<<"a">>))
    \/ GetUsers
    \/ \E s \in Slots, id \in {MkId(1), MkId(MaxUsers + 1)}, dt \in {Absent, Str(<<"1">>)},
          now \in Clock :
          AddExercise(s, id, Str(<<"r">>), Str(<<"7">>), dt, now)
    \/ \E s \in Slots : AddExerciseSave(s)
    \/ \E id \in {MkId(1)} : GetLogs(id, Absent, Absent, Absent)

SpecRace == Init /\ [][NextRace]_vars

(***************************************************************************)
(* The properties.                                                         *)
(***************************************************************************)
\* What the contract calls a well-formed identifier, an existing user, a
\* blank string, a parseable date.
WellFormedId(s) == Len(s) = IdLen /\ \A i \in 1..Len(s) : s[i] \in HexChars
Exists(us, id) == \E i \in 1..Len(us) : us[i]._id = id
NoOuterSpace(s) == s = <<>> \/ (s[1] # " " /\ s[Len(s)] # " ")
Blank(x) == ~x.present \/ \A i \in 1..Len(x.s) : x.s[i] = " "
Parseable(x) == x.present /\ ParseDate(x.s).valid
Success(r) == r.status \in {200, 201}
\* A log entry as a response renders it.
Rendered(e) == [description |-> e.description, duration |-> e.duration,
                date |-> ToDateString(e.date)]
RenderedLog(log) == [k \in 1..Len(log) |-> Rendered(log[k])]
Min(a, b) == IF a < b THEN a ELSE b

\* C1: an Add Exercise with description and duration present answers 400 to a
\* malformed userId and 404 to a well-formed userId of no user, never 500,
\* and leaves the store as it was.
C1_MissingOrMalformedUser ==
    [][(resp'.op = "add" /\ Truthy(resp'.req.description) /\ Truthy(resp'.req.duration)) =>
         /\ (~WellFormedId(resp'.req.userId) => resp'.status = 400 /\ users' = users)
         /\ (WellFormedId(resp'.req.userId) /\ ~Exists(users, resp'.req.userId)
               => resp'.status = 404 /\ users' = users)]_vars

\* C1 witness: a well-formed userId of no user was answered 404 while a user
\* with a log exists.
C1_Witness ==
    /\ resp.op = "add" /\ resp.status = 404
    /\ Truthy(resp.req.description) /\ Truthy(resp.req.duration)
    /\ WellFormedId(resp.req.userId) /\ ~Exists(users, resp.req.userId)
    /\ \E i \in 1..Len(users) : users[i].log # <<>>

\* C2: Get Logs applies limit only when it parses to a non-negative integer
\* k, then returning the first min(k, length) of the from/to-filtered
\* entries; any other limit gives the response of the request without limit.
C2_LimitOnlyWhenNonNegative ==
    (resp.op = "logs" /\ Exists(users, resp.req.userId)) =>
        LET q == resp.req
            InRange(e) == /\ (Truthy(q.from) => e.date.t >= ParseDate(q.from.s).t)
                          /\ (Truthy(q.to) => e.date.t <= ParseDate(q.to.s).t)
            filtered == RenderedLog(SelectSeq(LogOf(users, q.userId), InRange))
            k == ParseInt(q.limit.s)
        IN  /\ resp.status = 200
            /\ resp.body.log =
                  IF Truthy(q.limit) /\ ~k.nan /\ k.sign = 1
                  THEN SubSeq(filtered, 1, Min(k.int, Len(filtered)))
                  ELSE filtered

\* C3: Get Logs with an unparseable from answers as the same request
\* without from (here: no to, no limit, so the whole log, status 200).
C3_BadFromSameAsOmitted ==
    (/\ resp.op = "logs" /\ Exists(users, resp.req.userId)
     /\ Truthy(resp.req.from) /\ ~Parseable(resp.req.from)
     /\ ~resp.req.to.present /\ ~resp.req.limit.present) =>
        /\ resp.status = 200
        /\ resp.body.log = RenderedLog(LogOf(users, resp.req.userId))
        /\ resp.body.count = Len(LogOf(users, resp.req.userId))

\* C4: Get Logs with valid from and/or to returns exactly the stored entries
\* with from <= date <= to, in stored order; with a limit k the first k of
\* them; and count is the length of the returned log.
C4_RangeAndLimit ==
    (resp.op = "logs" /\ resp.status = 200) =>
        LET q == resp.req
            InRange(e) == /\ (Truthy(q.from) => e.date.t >= ParseDate(q.from.s).t)
                          /\ (Truthy(q.to) => e.date.t <= ParseDate(q.to.s).t)
            filtered == RenderedLog(SelectSeq(LogOf(users, q.userId), InRange))
            k == ParseInt(q.limit.s)
        IN  /\ resp.body.count = Len(resp.body.log)
            /\ (/\ (Truthy(q.from) => Parseable(q.from))
                /\ (Truthy(q.to) => Parseable(q.to))
                /\ (Truthy(q.limit) => ~k.nan /\ k.sign = 1))
               => resp.body.log = IF Truthy(q.limit)
                                  THEN SubSeq(filtered, 1, Min(k.int, Len(filtered)))
                                  ELSE filtered

\* C4 witness: from, to and limit all given; of two stored entries one lies
\* outside the range and the other is returned.
C4_Witness ==
    /\ resp.op = "logs" /\ resp.status = 200
    /\ Parseable(resp.req.from) /\ Parseable(resp.req.to)
    /\ Truthy(resp.req.limit) /\ ParseInt(resp.req.limit.s) = MkNum(1, 1, <<>>)
    /\ Len(LogOf(users, resp.req.userId)) >= 2
    /\ resp.body.count = 1
    /\ \E e \in {LogOf(users, resp.req.userId)[k] : k \in 1..Len(LogOf(users, resp.req.userId))} :
          e.date.t > ParseDate(resp.req.to.s).t

\* C5: Create User answers 400 to an absent, empty or blank username; any
\* other username succeeds and is stored and returned without surrounding
\* white space.
C5_UsernameValidatedAndTrimmed ==
    (resp.op = "create") =>
        IF Blank(resp.req.username)
        THEN resp.status = 400
        ELSE /\ Success(resp)
             /\ NoOuterSpace(resp.body.username)
             /\ \E i \in 1..Len(users) :
                   users[i]._id = resp.body._id /\ users[i].username = resp.body.username

C7_SequentialAddsInOrder ==
    \A i \in 1..Len(users) :
        /\ Len(users[i].log) = Len(okAdds[i])
        /\ \A k \in 1..Len(users[i].log) :
              /\ Rendered(users[i].log[k]).description = okAdds[i][k].description
              /\ Rendered(users[i].log[k]).duration = okAdds[i][k].duration
              /\ Rendered(users[i].log[k]).date = okAdds[i][k].date

\* C7 witness: a log of two entries whose dates are not in ascending order.
C7_Witness ==
    \E i \in 1..Len(users) :
        /\ Len(users[i].log) >= 2 /\ Len(okAdds[i]) >= 2
        /\ users[i].log[1].date.t > users[i].log[2].date.t

\* C8: an Add Exercise that ends with 400 or 404 has written nothing, and
\* one that writes has passed every validation (required fields, identifier
\* format, user existence, date parseability).
C8_ValidationBeforeWrite ==
    [][(resp'.op = "add") =>
         /\ (resp'.status \in {400, 404} => users' = users)
         /\ (users' # users =>
               /\ Truthy(resp'.req.description) /\ Truthy(resp'.req.duration)
               /\ WellFormedId(resp'.req.userId) /\ Exists(users, resp'.req.userId)
               /\ (~Blank(resp'.req.date) => Parseable(resp'.req.date)))]_vars

\* C8 witness: an unparseable date was answered 400 for a user who has a log.
C8_Witness ==
    /\ resp.op = "add" /\ resp.status = 400
    /\ Truthy(resp.req.description) /\ Truthy(resp.req.duration)
    /\ ~Blank(resp.req.date) /\ ~Parseable(resp.req.date)
    /\ LogOf(users, resp.req.userId) # <<>>

\* C9: a List Users right after a successful Create User holds the created
\* user exactly once, with the id and username of the create response; no
\* entry of a list has a log field; the empty store lists as empty.
C9_ListAfterCreate ==
    (resp.op = "users") =>
        LET list == resp.body.users IN
        /\ (users = <<>> => list = <<>>)
        /\ \A k \in 1..Len(list) : DOMAIN list[k] = {"username", "_id"}
        /\ \A c \in {resp.req.created[j] : j \in 1..Len(resp.req.created)} :
              /\ Cardinality({k \in 1..Len(list) : list[k]._id = c._id}) = 1
              /\ \A k \in 1..Len(list) : list[k]._id = c._id => list[k].username = c.username

\* C9 witness: a list of two users sent right after the second was created
\* from a username with surrounding blanks.
C9_Witness ==
    /\ resp.op = "users" /\ Len(resp.body.users) = 2
    /\ resp.req.created # <<>>
    /\ resp.body.users[2]._id = resp.req.created[1]._id

\* C10 as stated: the save of an Add Exercise whose read is stale writes
\* back the document it read plus its own entry, losing the update made in
\* between (last write wins).
C10_LostUpdate ==
    [][\A s \in Slots :
         (/\ reqs[s].pc = "found" /\ reqs'[s].pc = "idle" /\ Success(resp')
          /\ reqs[s].user.log # LogOf(users, reqs[s].user._id))
         => LogOf(users', reqs[s].user._id) = Append(reqs[s].user.log, reqs[s].exercise)]_vars

\* C10 amended: every successful save appends its entry to the log the store
\* holds at that moment, so interleaved Add Exercise requests lose nothing:
\* the log has as many entries as there were successful responses.
C10_ConcurrentAddsBothKept ==
    [][\A s \in Slots :
         (reqs[s].pc = "found" /\ reqs'[s].pc = "idle" /\ Success(resp'))
         => /\ LogOf(users', reqs[s].user._id)
                 = Append(LogOf(users, reqs[s].user._id), reqs[s].exercise)
            /\ \A i \in 1..Len(users') : Len(users'[i].log) = Len(okAdds'[i])]_vars

\* C10 witness: a request answered with success whose user's log is two
\* entries longer than the log the request read.
C10_Witness ==
    /\ resp.op = "add" /\ Success(resp)
    /\ Len(LogOf(users, resp.body._id)) = Len(resp.base) + 2

====
